---- MODULE Spec2Model ----
(***************************************************************************)
(* A model of go-bus (src/bus.go): one Bus, its topics map of handler       *)
(* slices, its RWMutex, and the goroutines that call Subscribe,             *)
(* Unsubscribe, Publish and PublishAll on it, from the top level or from    *)
(* inside a handler.                                                        *)
(*                                                                          *)
(* A Go slice is a header (array, len, cap) over a backing array; the       *)
(* model keeps the backing arrays in `heap` so that two headers over the    *)
(* same array see each other's writes, as in the program.                   *)
(***************************************************************************)
EXTENDS Naturals, Integers, Sequences, FiniteSets, Bags, TLC

\* ------------------------------------------------------------------ bounds
NThreads == 2        \* top-level goroutines calling the bus
NGoroutines == 1     \* goroutines started by `go h.On(...)` that run at once
MaxCalls == 4        \* bus calls made in one run (top level and reentrant)
MaxFairCalls == 3    \* bus calls made in one run under FairSpec
MaxLen == 3          \* longest handler list of one topic
MaxDepth == 3        \* deepest call stack of one goroutine

Topics == {"kills", "joins"}
Values == {"hello"}
PtrHandlers == {"p1", "p2"}     \* handlers of a comparable dynamic type (*HandlerFunc)
FuncHandlers == {"f1"}          \* HandlerFunc passed by value: not comparable
OnceHandlers == {"o1", "o2"}    \* the wrappers OnceFunc registers (*HandlerFunc)
ValHandlers == {"s1", "s2"}     \* two Handler values of one comparable type, equal
Handlers == PtrHandlers \cup FuncHandlers \cup OnceHandlers \cup ValHandlers

Threads == 1..NThreads
Goroutines == (NThreads + 1)..(NThreads + NGoroutines)
Tasks == Threads \cup Goroutines

\* Every Publish frame can pin one backing array besides the topics' own.
MaxArrays == Cardinality(Topics) + Cardinality(Tasks) * ((MaxDepth + 1) \div 2)
Arrays == 1..MaxArrays

Nil == "nil"                    \* the zero value of a slot / the nil error
NoRet == [op |-> "none"]
NilSlice == [arr |-> 0, len |-> 0, cap |-> 0]
Async == 1                      \* PublishFlag Async = 1 << 0

VARIABLES
  topics,     \* b.topics: a function from the present keys to slice headers
  heap,       \* the backing arrays of the handler slices
  writer,     \* the task holding b.lock for writing, 0 when none
  readers,    \* the tasks holding b.lock for reading
  stack,      \* the call stack of every goroutine
  ret,        \* what the last call of a goroutine returned to it
  spawned,    \* `go h.On(b, t, v)` statements executed, goroutine not started yet
  crashed,    \* an unrecovered panic ended the process
  left,       \* bus calls the run may still make
  absList,    \* history: per topic, the handlers subscribed and not yet removed
  muts,       \* history: per topic, the Subscribes and removals that took effect
  subs,       \* history: Subscribe(t, h) calls that took effect (saturates at 2)
  capTrue,    \* history: times the capability of (t, h) returned true (saturates at 2)
  once,       \* the package's sync.Once: its done flag and the holder of its mutex
  defaultBus  \* the package's defaultBus: 0 for nil, else the Bus NewBus made

vars == <<topics, heap, writer, readers, stack, ret, spawned, crashed, left,
          absList, muts, subs, capTrue, once, defaultBus>>

\* ----------------------------------------------------------- slices, heap
Min(a, b) == IF a < b THEN a ELSE b

Range(q) == {q[i] : i \in 1..Len(q)}

\* b.topics[t]: the nil slice for an absent key
Lookup(tp, t) == IF t \in DOMAIN tp THEN tp[t] ELSE NilSlice

\* the elements a slice header denotes
Elems(hp, s) == IF s.len = 0 THEN <<>> ELSE SubSeq(hp[s.arr], 1, s.len)

\* the handler list of a topic as the program sees it
List(t) == Elems(heap, Lookup(topics, t))

\* delete(b.topics, t)
MapDelete(tp, t) == [x \in (DOMAIN tp) \ {t} |-> tp[x]]

\* b.topics[t] = s
MapPut(tp, t, s) == [x \in (DOMAIN tp) \cup {t} |-> IF x = t THEN s ELSE tp[x]]

\* the frames of all stacks, as <<task, position>>
Frames(st) == {p \in Tasks \X (1..MaxDepth) : p[2] <= Len(st[p[1]])}
FramesOf(st, op) == {p \in Frames(st) : st[p[1]][p[2]].op = op}

\* the arrays something still points to
Referenced(tp, st) ==
  ({tp[t].arr : t \in DOMAIN tp}
     \cup {st[p[1]][p[2]].hs.arr : p \in FramesOf(st, "Publish")}
     \cup {st[p[1]][p[2]].a.arr : p \in FramesOf(st, "Unsubscribe")}) \ {0}

\* the garbage collector: an array nothing points to is gone
Collect(hp, tp, st) == [a \in Arrays |-> IF a \in Referenced(tp, st) THEN hp[a] ELSE <<>>]

\* a fresh array for a composite literal or a growing append
FreeArrays == Arrays \ Referenced(topics, stack)
NewArray == CHOOSE a \in FreeArrays : \A b \in FreeArrays : a <= b

\* the capacity append gives a full slice of capacity c that gains one element
GrowCap(c) == IF c = 0 THEN 1 ELSE 2 * c

\* the list without its element at i
RemoveAt(q, i) == [j \in 1..(Len(q) - 1) |-> IF j < i THEN q[j] ELSE q[j + 1]]

\* the list without the first occurrence of h
RemoveFirst(q, h) ==
  IF h \notin Range(q) THEN q
  ELSE RemoveAt(q, CHOOSE i \in 1..Len(q) : q[i] = h /\ \A j \in 1..(i - 1) : q[j] # h)

\* ------------------------------------------------------------- handlers
Comparable(h) == h \in PtrHandlers \cup OnceHandlers \cup ValHandlers

\* what an interface value holds of the handler it was made from: the
\* pointer itself, or a copy of the value
Val(h) == IF h \in ValHandlers THEN "s" ELSE h

\* faulty variant of IfaceEq: the instances are compared, whatever they hold
IfaceEqInstance(h2, h) ==
  IF (~Comparable(h2)) /\ (~Comparable(h)) THEN "panic"
  ELSE IF h2 = h THEN "true" ELSE "false"

\* h2 == h on two Handler interface values: "panic" when both hold the same
\* uncomparable dynamic type (HandlerFunc), else equality of the dynamic
\* types and of what they hold: the same pointer, or equal values
IfaceEq(h2, h) ==
  IF (~Comparable(h2)) /\ (~Comparable(h)) THEN "panic"
  ELSE IF Val(h2) = Val(h) THEN "true" ELSE "false"

\* the scan of Unsubscribe: the first index whose comparison is not "false"
ScanHits(list, h) == {i \in 1..Len(list) : IfaceEq(list[i], h) # "false"}
ScanFirst(list, h) == CHOOSE i \in ScanHits(list, h) : \A j \in ScanHits(list, h) : i <= j

\* ---------------------------------------------------------------- stacks
Top(k) == stack[k][Len(stack[k])]
SetTop(st, k, f) == [st EXCEPT ![k] = [@ EXCEPT ![Len(@)] = f]]
Push(st, k, f) == [st EXCEPT ![k] = Append(@, f)]
Pop(st, k) == [st EXCEPT ![k] = SubSeq(@, 1, Len(@) - 1)]

\* a goroutine blocked in b.lock.Lock(): the RWMutex lets no new reader in
WriterWaiting ==
  \E k \in Tasks : stack[k] # <<>> /\ Top(k).op \in {"Subscribe", "Unsubscribe"}
                                   /\ Top(k).pc = "lock"
CanLock == writer = 0 /\ readers = {}
CanRLock == writer = 0 /\ ~WriterWaiting

\* Subscribes to t that wait for the lock: keeps a list within MaxLen
Pending(t) ==
  Cardinality({p \in FramesOf(stack, "Subscribe") : stack[p[1]][p[2]].t = t})

\* The names of topics and of handlers of one kind are interchangeable: a
\* call takes a name the run has not used yet only when the names before it
\* in TopicOrder or HandlerOrder are in use, so that runs that differ only
\* by a renaming are explored once.
TopicOrder == <<"kills", "joins">>
HandlerOrder == <<"p1", "p2">>
OnceOrder == <<"o1", "o2">>
UsedTopics ==
  {t \in Topics : muts[t] > 0}
    \cup {stack[p[1]][p[2]].t : p \in {q \in Frames(stack) : stack[q[1]][q[2]].op # "PublishAll"}}
    \cup {ret[k].t : k \in {j \in Tasks : ret[j].op \in {"Subscribe", "Unsubscribe"}}}
UsedHandlers ==
  {h \in Handlers : \E t \in Topics : subs[<<t, h>>] > 0}
    \cup {stack[p[1]][p[2]].h : p \in {q \in Frames(stack) :
             stack[q[1]][q[2]].op \in {"Subscribe", "Unsubscribe", "On"}}}
    \cup {ret[k].h : k \in {j \in Tasks : ret[j].op \in {"Subscribe", "Unsubscribe"}}}
InOrder(order, used, x) ==
  \A i, j \in 1..Len(order) : (order[j] = x /\ i < j) => order[i] \in used
NextTopic(t) == InOrder(TopicOrder, UsedTopics, t)
NextName(t, h) == NextTopic(t) /\ InOrder(HandlerOrder, UsedHandlers, h)

\* who may start a bus call: a handler body, or an idle top-level goroutine
\* (these are interchangeable, so the lowest idle one makes the call)
MayCall(k, need) ==
  /\ ~crashed
  /\ left > 0
  /\ Len(stack[k]) + need <= MaxDepth
  /\ \/ /\ k \in Threads
        /\ stack[k] = <<>>
        /\ \A j \in Threads : stack[j] = <<>> => k <= j
     \/ /\ stack[k] # <<>>
        /\ Top(k).op = "On"
        /\ Top(k).pc = "body"
        /\ Top(k).h \notin OnceHandlers

\* the caller's stack while its call is under way
Caller(k) ==
  IF stack[k] = <<>> THEN stack
  ELSE SetTop(stack, k, [Top(k) EXCEPT !.pc = "after"])

\* a call blocked on the lock
Blocked(k, op) ==
  /\ ~crashed
  /\ stack[k] # <<>>
  /\ Top(k).op = op
  /\ Top(k).pc = "lock"

\* a call finds the lock taken and waits
Wait(k, f) ==
  /\ stack' = Push(Caller(k), k, f)
  /\ ret' = [ret EXCEPT ![k] = NoRet]
  /\ UNCHANGED <<topics, heap, writer, readers, spawned, crashed,
                 absList, muts, subs, capTrue, once, defaultBus>>

\* NewBus()
InitBus ==
  /\ topics = << >>
  /\ heap = [a \in Arrays |-> <<>>]
  /\ writer = 0
  /\ readers = {}
  /\ stack = [k \in Tasks |-> <<>>]
  /\ ret = [k \in Tasks |-> NoRet]
  /\ spawned = EmptyBag
  /\ crashed = FALSE
  /\ absList = [t \in Topics |-> <<>>]
  /\ muts = [t \in Topics |-> 0]
  /\ subs = [p \in Topics \X Handlers |-> 0]
  /\ capTrue = [p \in Topics \X Handlers |-> 0]
  /\ once = [done |-> FALSE, m |-> 0]
  /\ defaultBus = 0

Init == InitBus /\ left = MaxCalls

\* the runs whose liveness is checked are shorter
FairInit == InitBus /\ left = MaxFairCalls

\* ------------------------------------------------------------- Subscribe
\* faulty variant of AppendSlice: the else branch is lost, every Subscribe stores
\* []Handler{h}
AppendSliceFresh(hp, hs, h) ==
  [hdr  |-> [arr |-> NewArray, len |-> 1, cap |-> 1],
   heap |-> [hp EXCEPT ![NewArray] = <<h>>]]

\* faulty variant of AppendSlice: h is written over the last element
AppendSliceOver(hp, hs, h) ==
  IF hs.len = 0
  THEN [hdr  |-> [arr |-> NewArray, len |-> 1, cap |-> 1],
        heap |-> [hp EXCEPT ![NewArray] = <<h>>]]
  ELSE [hdr  |-> hs,
        heap |-> [hp EXCEPT ![hs.arr] = [@ EXCEPT ![hs.len] = h]]]

\* append(hs, h): in place when the capacity allows, else into a new array
AppendSlice(hp, hs, h) ==
  IF hs.len < hs.cap
  THEN [hdr  |-> [hs EXCEPT !.len = hs.len + 1],
        heap |-> [hp EXCEPT ![hs.arr] = [@ EXCEPT ![hs.len + 1] = h]]]
  ELSE LET c == GrowCap(hs.cap)
           a == NewArray
       IN [hdr  |-> [arr |-> a, len |-> hs.len + 1, cap |-> c],
           heap |-> [hp EXCEPT ![a] =
                       [i \in 1..c |-> IF i <= hs.len THEN hp[hs.arr][i]
                                       ELSE IF i = hs.len + 1 THEN h ELSE Nil]]]

\* the body of Subscribe under the write lock, the deferred Unlock and the
\* return of the closure; base is the caller's stack
SubscribeBody(k, f, base) ==
  LET r == IF f.t \notin DOMAIN topics
           THEN AppendSlice(heap, NilSlice, f.h)      \* []Handler{h}
           ELSE AppendSlice(heap, topics[f.t], f.h)
  IN /\ topics' = MapPut(topics, f.t, r.hdr)
     /\ stack' = base
     /\ heap' = Collect(r.heap, topics', stack')
     /\ ret' = [ret EXCEPT ![k] = [op |-> "Subscribe", t |-> f.t, h |-> f.h]]
     /\ absList' = [absList EXCEPT ![f.t] = Append(@, f.h)]
     /\ muts' = [muts EXCEPT ![f.t] = @ + 1]
     /\ subs' = [subs EXCEPT ![<<f.t, f.h>>] = Min(@ + 1, 2)]
     /\ UNCHANGED <<writer, readers, spawned, crashed, capTrue, once, defaultBus>>

\* b.Subscribe(t, h): Lock returns at once when the lock is free
CallSubscribe(k, t, h) ==
  /\ MayCall(k, 1)
  /\ NextName(t, h)
  /\ Len(List(t)) + Pending(t) < MaxLen
  /\ left' = left - 1
  /\ LET f == [op |-> "Subscribe", pc |-> "lock", t |-> t, h |-> h]
     IN IF CanLock THEN SubscribeBody(k, f, Caller(k)) ELSE Wait(k, f)

\* a Subscribe that waited for the lock gets it
SubscribeLocked(k) ==
  /\ Blocked(k, "Subscribe")
  /\ CanLock
  /\ SubscribeBody(k, Top(k), Pop(stack, k))
  /\ UNCHANGED left

\* ----------------------------------------------------------- Unsubscribe
\* what the return of an Unsubscribe leaves behind
UnsubscribeReturn(k, f, val, base) ==
  /\ stack' = base
  /\ ret' = [ret EXCEPT ![k] = [op |-> "Unsubscribe", t |-> f.t, h |-> f.h,
                                viaCap |-> f.viaCap, late |-> f.late, val |-> val]]
  /\ capTrue' = IF f.viaCap /\ val
                THEN [capTrue EXCEPT ![<<f.t, f.h>>] = Min(@ + 1, 2)]
                ELSE capTrue
  /\ UNCHANGED <<once, defaultBus>>

\* faulty variant of UnsubscribeScan: a miss stores the slice it read, which
\* makes a key for a topic that had none
UnsubscribeScanStore(k, f, base) ==
  LET a == Lookup(topics, f.t)
      list == Elems(heap, a)
  IN IF ScanHits(list, f.h) = {}
     THEN /\ UnsubscribeReturn(k, f, FALSE, base)
          /\ topics' = MapPut(topics, f.t, a)
          /\ UNCHANGED <<heap, writer, readers, spawned, crashed,
                         absList, muts, subs>>
     ELSE /\ writer' = k
          /\ stack' = Push(base, k, [f EXCEPT !.pc = "copy", !.a = a, !.old = list,
                                              !.i = ScanFirst(list, f.h)])
          /\ ret' = [ret EXCEPT ![k] = NoRet]
          /\ muts' = [muts EXCEPT ![f.t] = @ + 1]
          /\ UNCHANGED <<topics, heap, readers, spawned, crashed,
                         absList, subs, capTrue, once, defaultBus>>

\* a := b.topics[t]; the range loop up to the first h2 == h
UnsubscribeScan(k, f, base) ==
  LET a == Lookup(topics, f.t)
      list == Elems(heap, a)
  IN IF ScanHits(list, f.h) = {}
     THEN \* return false; the deferred Unlock
          /\ UnsubscribeReturn(k, f, FALSE, base)
          /\ UNCHANGED <<topics, heap, writer, readers, spawned, crashed,
                         absList, muts, subs>>
     ELSE IF IfaceEq(list[ScanFirst(list, f.h)], f.h) = "panic"
     THEN \* runtime error: comparing uncomparable type; nothing recovers it
          /\ crashed' = TRUE
          /\ stack' = Push(base, k, f)
          /\ ret' = [ret EXCEPT ![k] = NoRet]
          /\ UNCHANGED <<topics, heap, writer, readers, spawned,
                         absList, muts, subs, capTrue, once, defaultBus>>
     ELSE \* found at i: append(a[:i], a[i+1:]...) starts, lock held
          /\ writer' = k
          /\ stack' = Push(base, k, [f EXCEPT !.pc = "copy", !.a = a, !.old = list,
                                              !.i = ScanFirst(list, f.h)])
          /\ ret' = [ret EXCEPT ![k] = NoRet]
          /\ muts' = [muts EXCEPT ![f.t] = @ + 1]
          /\ UNCHANGED <<topics, heap, readers, spawned, crashed,
                         absList, subs, capTrue, once, defaultBus>>

\* b.Unsubscribe(t, h); whoever holds the closure Subscribe(t, h) returned
\* calls that (viaCap), which runs the same b.Unsubscribe(t, h); late: the
\* closure has returned true before this call
CallUnsubscribe(k, t, h, viaCap) ==
  /\ MayCall(k, 1)
  /\ NextName(t, h)
  /\ viaCap <=> subs[<<t, h>>] > 0
  /\ left' = left - 1
  /\ LET f == [op |-> "Unsubscribe", pc |-> "lock", t |-> t, h |-> h,
               viaCap |-> viaCap, late |-> capTrue[<<t, h>>] > 0,
               a |-> NilSlice, i |-> 0, old |-> <<>>]
     IN IF CanLock THEN UnsubscribeScan(k, f, Caller(k)) ELSE Wait(k, f)

\* an Unsubscribe that waited for the lock gets it
UnsubscribeLocked(k) ==
  /\ Blocked(k, "Unsubscribe")
  /\ CanLock
  /\ UnsubscribeScan(k, Top(k), Pop(stack, k))
  /\ UNCHANGED left

\* faulty variant of UnsubscribeCopy: the slice is cut short without moving a[i+1:]
UnsubscribeCopyNoMove(k) ==
  /\ ~crashed
  /\ stack[k] # <<>>
  /\ Top(k).op = "Unsubscribe"
  /\ Top(k).pc = "copy"
  /\ Top(k).i < Top(k).a.len
  /\ stack' = SetTop(stack, k, [Top(k) EXCEPT !.i = Top(k).i + 1])
  /\ UNCHANGED <<topics, heap, writer, readers, ret, spawned, crashed, left,
                 absList, muts, subs, capTrue, once, defaultBus>>

\* append(a[:i], a[i+1:]...) moves a[i+1:] down one slot, element by element
UnsubscribeCopy(k) ==
  /\ ~crashed
  /\ stack[k] # <<>>
  /\ Top(k).op = "Unsubscribe"
  /\ Top(k).pc = "copy"
  /\ Top(k).i < Top(k).a.len
  /\ LET f == Top(k)
     IN /\ heap' = [heap EXCEPT ![f.a.arr] =
                       [@ EXCEPT ![f.i] = heap[f.a.arr][f.i + 1]]]
        /\ stack' = SetTop(stack, k, [f EXCEPT !.i = f.i + 1])
  /\ UNCHANGED <<topics, writer, readers, ret, spawned, crashed, left,
                 absList, muts, subs, capTrue, once, defaultBus>>

\* faulty variant of Shrink: the shortened slice is not stored
ShrinkNotStored(tp, t, s) == tp

\* faulty variant of Shrink: the key is deleted whatever is left of the list
ShrinkAlwaysDelete(tp, t, s) == MapDelete(tp, t)

\* faulty variant of Shrink: the key of an empty list is not deleted
ShrinkNoDelete(tp, t, s) == MapPut(tp, t, s)

\* b.topics[t] = the shortened slice; delete(b.topics, t) when it is empty
Shrink(tp, t, s) == IF s.len = 0 THEN MapDelete(tp, t) ELSE MapPut(tp, t, s)

\* the end of append(a[:i], a[i+1:]...): the map update, return true, the
\* deferred Unlock
UnsubscribeDone(k) ==
  /\ ~crashed
  /\ stack[k] # <<>>
  /\ Top(k).op = "Unsubscribe"
  /\ Top(k).pc = "copy"
  /\ Top(k).i = Top(k).a.len
  /\ LET f == Top(k)
         s == [f.a EXCEPT !.len = f.a.len - 1]
     IN /\ topics' = Shrink(topics, f.t, s)
        /\ UnsubscribeReturn(k, f, TRUE, Pop(stack, k))
        /\ heap' = Collect(heap, topics', stack')
        /\ absList' = [absList EXCEPT ![f.t] = RemoveFirst(@, f.h)]
  /\ writer' = 0
  /\ UNCHANGED <<readers, spawned, crashed, left, muts, subs>>

\* ---------------------------------------------------------------- Publish
\* f&flag != 0
HasFlag(f, flag) == (f \div flag) % 2 = 1

\* faulty variant of PublishRead: the read lock is kept while the handlers run
PublishReadHeld(k, f, base) ==
  /\ readers' = readers \cup {k}
  /\ stack' = Push(base, k, [f EXCEPT !.pc = "loop", !.hs = Lookup(topics, f.t),
                                      !.i = 1, !.snap = absList[f.t],
                                      !.gen0 = muts[f.t]])
  /\ ret' = [ret EXCEPT ![k] = NoRet]
  /\ UNCHANGED <<topics, heap, writer, spawned, crashed,
                 absList, muts, subs, capTrue, once, defaultBus>>

\* RLock; hs := b.topics[t]; RUnlock
PublishRead(k, f, base) ==
  /\ stack' = Push(base, k, [f EXCEPT !.pc = "loop", !.hs = Lookup(topics, f.t),
                                      !.i = 1, !.snap = absList[f.t],
                                      !.gen0 = muts[f.t]])
  /\ ret' = [ret EXCEPT ![k] = NoRet]
  /\ UNCHANGED <<topics, heap, writer, readers, spawned, crashed,
                 absList, muts, subs, capTrue, once, defaultBus>>

\* b.Publish(t, v, flags...)
CallPublish(k, t, v, flags) ==
  /\ MayCall(k, IF HasFlag(flags, Async) THEN 1 ELSE 2)
  /\ NextTopic(t)
  /\ left' = left - 1
  /\ LET f == [op |-> "Publish", pc |-> "lock", t |-> t, v |-> v, flags |-> flags,
               hs |-> NilSlice, i |-> 0, snap |-> <<>>, inv |-> <<>>,
               fin |-> 0, gen0 |-> 0]
     IN IF CanRLock THEN PublishRead(k, f, Caller(k)) ELSE Wait(k, f)

\* a Publish that waited for the read lock gets it
PublishLocked(k) ==
  /\ Blocked(k, "Publish")
  /\ CanRLock
  /\ PublishRead(k, Top(k), Pop(stack, k))
  /\ UNCHANGED left

\* faulty variant of PublishLoop: the list is walked from its end
PublishLoopReverse(k) ==
  /\ ~crashed
  /\ stack[k] # <<>>
  /\ Top(k).op = "Publish"
  /\ Top(k).pc = "loop"
  /\ Top(k).i <= Top(k).hs.len
  /\ LET f == Top(k)
         h == heap[f.hs.arr][f.hs.len + 1 - f.i]
         g == [f EXCEPT !.i = f.i + 1, !.inv = Append(f.inv, h)]
         on == [op |-> "On", pc |-> "body", h |-> h, t |-> f.t, v |-> f.v]
     IN IF HasFlag(f.flags, Async)
        THEN /\ spawned' = spawned (+) SetToBag({[h |-> h, t |-> f.t, v |-> f.v]})
             /\ stack' = SetTop(stack, k, g)
        ELSE /\ stack' = Push(SetTop(stack, k, g), k, on)
             /\ UNCHANGED spawned
  /\ UNCHANGED <<topics, heap, writer, readers, ret, crashed, left,
                 absList, muts, subs, capTrue, once, defaultBus>>

\* one turn of `for _, h := range hs`: h is read from the array now, and
\* called here or in a goroutine of its own
PublishLoop(k) ==
  /\ ~crashed
  /\ stack[k] # <<>>
  /\ Top(k).op = "Publish"
  /\ Top(k).pc = "loop"
  /\ Top(k).i <= Top(k).hs.len
  /\ LET f == Top(k)
         h == heap[f.hs.arr][f.i]
         g == [f EXCEPT !.i = f.i + 1, !.inv = Append(f.inv, h)]
         on == [op |-> "On", pc |-> "body", h |-> h, t |-> f.t, v |-> f.v]
     IN IF HasFlag(f.flags, Async)
        THEN /\ spawned' = spawned (+) SetToBag({[h |-> h, t |-> f.t, v |-> f.v]})
             /\ stack' = SetTop(stack, k, g)
        ELSE /\ stack' = Push(SetTop(stack, k, g), k, on)
             /\ UNCHANGED spawned
  /\ UNCHANGED <<topics, heap, writer, readers, ret, crashed, left,
                 absList, muts, subs, capTrue, once, defaultBus>>

\* faulty variant of PublishReturn: cap(hs) is returned for len(hs)
PublishReturnCap(k) ==
  /\ ~crashed
  /\ stack[k] # <<>>
  /\ Top(k).op = "Publish"
  /\ Top(k).pc = "loop"
  /\ Top(k).i > Top(k).hs.len
  /\ stack' = Pop(stack, k)
  /\ ret' = [ret EXCEPT ![k] = [op |-> "Publish", n |-> Top(k).hs.cap, err |-> Nil]]
  /\ heap' = Collect(heap, topics, stack')
  /\ UNCHANGED <<topics, writer, readers, spawned, crashed, left,
                 absList, muts, subs, capTrue, once, defaultBus>>

\* return len(hs), nil
PublishReturn(k) ==
  /\ ~crashed
  /\ stack[k] # <<>>
  /\ Top(k).op = "Publish"
  /\ Top(k).pc = "loop"
  /\ Top(k).i > Top(k).hs.len
  /\ stack' = Pop(stack, k)
  /\ ret' = [ret EXCEPT ![k] = [op |-> "Publish", n |-> Top(k).hs.len, err |-> Nil]]
  /\ heap' = Collect(heap, topics, stack')
  /\ UNCHANGED <<topics, writer, readers, spawned, crashed, left,
                 absList, muts, subs, capTrue, once, defaultBus>>

\* ---------------------------------------------------------------- handlers
\* h.On(b, t, v) returns, having made one bus call or none (a wrapper of
\* OnceFunc: having called its capability); a synchronous Publish below it
\* goes on with its loop
HandlerReturn(k) ==
  /\ ~crashed
  /\ stack[k] # <<>>
  /\ Top(k).op = "On"
  /\ Top(k).h \in OnceHandlers => Top(k).pc = "after"
  /\ stack' = IF Len(stack[k]) = 1 THEN Pop(stack, k)
              ELSE SetTop(Pop(stack, k), k,
                          [stack[k][Len(stack[k]) - 1] EXCEPT !.fin = @ + 1])
  /\ ret' = [ret EXCEPT ![k] = NoRet]
  /\ UNCHANGED <<topics, heap, writer, readers, spawned, crashed, left,
                 absList, muts, subs, capTrue, once, defaultBus>>

\* the scheduler starts the goroutine of a `go h.On(b, t, v)`
GoStart(g, inv) ==
  /\ ~crashed
  /\ g \in Goroutines
  /\ stack[g] = <<>>
  /\ \A g2 \in Goroutines : stack[g2] = <<>> => g <= g2
  /\ BagIn(inv, spawned)
  /\ spawned' = spawned (-) SetToBag({inv})
  /\ stack' = [stack EXCEPT ![g] = <<[op |-> "On", pc |-> "body", h |-> inv.h,
                                      t |-> inv.t, v |-> inv.v]>>]
  /\ UNCHANGED <<topics, heap, writer, readers, ret, crashed, left,
                 absList, muts, subs, capTrue, once, defaultBus>>

\* ------------------------------------------------------------- PublishAll
\* RLock, held until the return
PublishAllRead(k, f, base) ==
  /\ readers' = readers \cup {k}
  /\ stack' = Push(base, k, [f EXCEPT !.pc = "range", !.todo = DOMAIN topics])
  /\ ret' = [ret EXCEPT ![k] = NoRet]
  /\ UNCHANGED <<topics, heap, writer, spawned, crashed, absList, muts, subs, capTrue, once, defaultBus>>

\* b.PublishAll(v)
CallPublishAll(k, v) ==
  /\ MayCall(k, 1)
  /\ left' = left - 1
  /\ LET f == [op |-> "PublishAll", pc |-> "lock", v |-> v, todo |-> {}, c |-> 0,
               sched |-> EmptyBag]
     IN IF CanRLock THEN PublishAllRead(k, f, Caller(k)) ELSE Wait(k, f)

\* a PublishAll that waited for the read lock gets it
PublishAllLocked(k) ==
  /\ Blocked(k, "PublishAll")
  /\ CanRLock
  /\ PublishAllRead(k, Top(k), Pop(stack, k))
  /\ UNCHANGED left

\* faulty variant of GoAll: a handler that is in the list twice is started once
GoAllOnce(list, t, v) == SetToBag({[h |-> list[i], t |-> t, v |-> v] : i \in 1..Len(list)})

\* the goroutines `go h.On(b, t, v)` of one list
GoAll(list, t, v) ==
  LET inv(i) == [h |-> list[i], t |-> t, v |-> v]
      S == {inv(i) : i \in 1..Len(list)}
  IN [x \in S |-> Cardinality({i \in 1..Len(list) : inv(i) = x})]

\* one turn of `for t, hs := range b.topics`, in the order the map gives
PublishAllTopic(k, t) ==
  /\ ~crashed
  /\ stack[k] # <<>>
  /\ Top(k).op = "PublishAll"
  /\ Top(k).pc = "range"
  /\ t \in Top(k).todo
  /\ LET f == Top(k)
         list == Elems(heap, topics[t])
     IN /\ spawned' = spawned (+) GoAll(list, t, f.v)
        /\ stack' = SetTop(stack, k, [f EXCEPT !.todo = @ \ {t},
                                               !.c = @ + Len(list),
                                               !.sched = @ (+) GoAll(list, t, f.v)])
  /\ UNCHANGED <<topics, heap, writer, readers, ret, crashed, left,
                 absList, muts, subs, capTrue, once, defaultBus>>

\* faulty variant of PublishAllReturn: the read lock is not released
PublishAllReturnHeld(k) ==
  /\ ~crashed
  /\ stack[k] # <<>>
  /\ Top(k).op = "PublishAll"
  /\ Top(k).pc = "range"
  /\ Top(k).todo = {}
  /\ stack' = Pop(stack, k)
  /\ ret' = [ret EXCEPT ![k] = [op |-> "PublishAll", n |-> Top(k).c, err |-> Nil]]
  /\ UNCHANGED <<topics, heap, writer, readers, spawned, crashed, left,
                 absList, muts, subs, capTrue, once, defaultBus>>

\* return c, nil; the deferred RUnlock
PublishAllReturn(k) ==
  /\ ~crashed
  /\ stack[k] # <<>>
  /\ Top(k).op = "PublishAll"
  /\ Top(k).pc = "range"
  /\ Top(k).todo = {}
  /\ readers' = readers \ {k}
  /\ stack' = Pop(stack, k)
  /\ ret' = [ret EXCEPT ![k] = [op |-> "PublishAll", n |-> Top(k).c, err |-> Nil]]
  /\ UNCHANGED <<topics, heap, writer, spawned, crashed, left,
                 absList, muts, subs, capTrue, once, defaultBus>>

\* ------------------------------------------------------------------- Next
Flags == {0, Async}

Next ==
  \/ \E k \in Tasks, t \in Topics, h \in PtrHandlers : CallSubscribe(k, t, h)
  \/ \E k \in Tasks : SubscribeLocked(k)
  \/ \E k \in Tasks, t \in Topics, h \in PtrHandlers, c \in BOOLEAN :
        CallUnsubscribe(k, t, h, c)
  \/ \E k \in Tasks : UnsubscribeLocked(k)
  \/ \E k \in Tasks : UnsubscribeCopy(k)
  \/ \E k \in Tasks : UnsubscribeDone(k)
  \/ \E k \in Tasks, t \in Topics, v \in Values, fl \in Flags : CallPublish(k, t, v, fl)
  \/ \E k \in Tasks : PublishLocked(k)
  \/ \E k \in Tasks : PublishLoop(k)
  \/ \E k \in Tasks : PublishReturn(k)
  \/ \E k \in Tasks : HandlerReturn(k)
  \/ \E g \in Goroutines, inv \in BagToSet(spawned) : GoStart(g, inv)
  \/ \E k \in Tasks, v \in Values : CallPublishAll(k, v)
  \/ \E k \in Tasks : PublishAllLocked(k)
  \/ \E k \in Tasks, t \in Topics : PublishAllTopic(k, t)
  \/ \E k \in Tasks : PublishAllReturn(k)

Spec == Init /\ [][Next]_vars

\* what a goroutine does once it is inside a call: the Go scheduler runs
\* every runnable goroutine, and a goroutine blocked in Lock or RLock gets
\* the lock once it stays free
Step(k) ==
  \/ SubscribeLocked(k)
  \/ UnsubscribeLocked(k)
  \/ UnsubscribeCopy(k)
  \/ UnsubscribeDone(k)
  \/ PublishLocked(k)
  \/ PublishLoop(k)
  \/ PublishReturn(k)
  \/ HandlerReturn(k)
  \/ PublishAllLocked(k)
  \/ \E t \in Topics : PublishAllTopic(k, t)
  \/ PublishAllReturn(k)

Start == \E g \in Goroutines, inv \in BagToSet(spawned) : GoStart(g, inv)

Fairness == WF_vars(Start) /\ \A k \in Tasks : WF_vars(Step(k))

FairSpec == FairInit /\ [][Next]_vars /\ Fairness

\* ------------------------------------------------ the package's default Bus
MaxPkgCalls == 3     \* package-level calls made in one run under DefaultSpec

DefaultInit == InitBus /\ left = MaxPkgCalls

\* NewBus() makes a new, empty Bus: the next instance after the `made` ones
\* made so far. The variables topics, heap, writer and readers are the state
\* of instance 1.
NewBus(made) == made + 1

\* faulty variant of OnceFree: the mutex of the Once excludes nobody
OnceFreeAlways(o) == TRUE

\* o.m.Lock() of once.Do succeeds
OnceFree(o) == o.m = 0

PkgFns == {"Subscribe", "Unsubscribe", "Publish"}

\* the frame of a package-level function is on top, at pc
InPkg(k, pc) ==
  /\ ~crashed
  /\ stack[k] # <<>>
  /\ Top(k).op = "pkg"
  /\ Top(k).pc = pc

\* once.Do(f) as far as caller k gets without waiting: it returns when f has
\* been run (getDefaultBus then reads defaultBus); it takes the mutex and
\* goes on to f when nobody holds it; else it waits
OnceDo(k, f) ==
  IF once.done
  THEN [frame |-> [f EXCEPT !.pc = "call", !.b = defaultBus], once |-> once]
  ELSE IF OnceFree(once)
  THEN [frame |-> [f EXCEPT !.pc = "f"], once |-> [once EXCEPT !.m = k]]
  ELSE [frame |-> f, once |-> once]

\* Subscribe(t, h), SubscribeFunc(t, h), Unsubscribe(t, h) and Publish(t, v,
\* flags...) of the package: each starts with getDefaultBus()
PkgCall(k, fn, t, h, v, flags) ==
  /\ ~crashed
  /\ left > 0
  /\ k \in Threads
  /\ stack[k] = <<>>
  /\ \A j \in Threads : stack[j] = <<>> => k <= j
  /\ IF fn = "Publish" THEN NextTopic(t) /\ h = HandlerOrder[1]
     ELSE NextName(t, h) /\ flags = 0
  /\ fn = "Subscribe" => Len(List(t)) + Pending(t) < MaxLen
  /\ left' = left - 1
  /\ LET d == OnceDo(k, [op |-> "pkg", pc |-> "do", fn |-> fn, t |-> t, h |-> h,
                         v |-> v, flags |-> flags, b |-> 0])
     IN stack' = Push(stack, k, d.frame) /\ once' = d.once
  /\ ret' = [ret EXCEPT ![k] = NoRet]
  /\ UNCHANGED <<topics, heap, writer, readers, spawned, crashed,
                 absList, muts, subs, capTrue, defaultBus>>

\* a caller that waited in once.Do goes on
OnceEnter(k) ==
  /\ InPkg(k, "do")
  /\ once.done \/ OnceFree(once)
  /\ LET d == OnceDo(k, Top(k))
     IN stack' = SetTop(stack, k, d.frame) /\ once' = d.once
  /\ UNCHANGED <<topics, heap, writer, readers, ret, spawned, crashed, left,
                 absList, muts, subs, capTrue, defaultBus>>

\* the function passed to once.Do: defaultBus = NewBus(); Do then sets done
\* and unlocks, getDefaultBus returns defaultBus
OnceRun(k) ==
  /\ InPkg(k, "f")
  /\ defaultBus' = NewBus(defaultBus)
  /\ once' = [done |-> TRUE, m |-> 0]
  /\ stack' = SetTop(stack, k, [Top(k) EXCEPT !.pc = "call", !.b = defaultBus'])
  /\ UNCHANGED <<topics, heap, writer, readers, ret, spawned, crashed, left,
                 absList, muts, subs, capTrue>>

\* getDefaultBus().Subscribe(t, h), .Unsubscribe(t, h), .Publish(t, v, flags...)
PkgMethod(k) ==
  /\ InPkg(k, "call")
  /\ LET p == Top(k)
     IN CASE p.fn = "Subscribe" ->
               LET f == [op |-> "Subscribe", pc |-> "lock", t |-> p.t, h |-> p.h]
               IN IF CanLock THEN SubscribeBody(k, f, Caller(k)) ELSE Wait(k, f)
          [] p.fn = "Unsubscribe" ->
               LET f == [op |-> "Unsubscribe", pc |-> "lock", t |-> p.t, h |-> p.h,
                         viaCap |-> FALSE, late |-> FALSE,
                         a |-> NilSlice, i |-> 0, old |-> <<>>]
               IN IF CanLock THEN UnsubscribeScan(k, f, Caller(k)) ELSE Wait(k, f)
          [] p.fn = "Publish" ->
               LET f == [op |-> "Publish", pc |-> "lock", t |-> p.t, v |-> p.v,
                         flags |-> p.flags, hs |-> NilSlice, i |-> 0, snap |-> <<>>,
                         inv |-> <<>>, fin |-> 0, gen0 |-> 0]
               IN IF CanRLock THEN PublishRead(k, f, Caller(k)) ELSE Wait(k, f)
  /\ UNCHANGED left

\* what the package-level function hands to its caller: Subscribe,
\* SubscribeFunc and Publish return what the method returned; Unsubscribe has
\* no result and drops the method's
PkgResult(fn, r) == IF fn = "Unsubscribe" THEN NoRet ELSE r

\* the package-level function returns
PkgReturn(k) ==
  /\ InPkg(k, "after")
  /\ stack' = Pop(stack, k)
  /\ ret' = [ret EXCEPT ![k] = [op |-> "pkg", fn |-> Top(k).fn, b |-> Top(k).b,
                                res |-> PkgResult(Top(k).fn, ret[k])]]
  /\ UNCHANGED <<topics, heap, writer, readers, spawned, crashed, left,
                 absList, muts, subs, capTrue, once, defaultBus>>

DefaultNext ==
  \/ \E k \in Threads, fn \in PkgFns, t \in Topics, h \in PtrHandlers,
        v \in Values, fl \in Flags : PkgCall(k, fn, t, h, v, fl)
  \/ \E k \in Threads : OnceEnter(k)
  \/ \E k \in Threads : OnceRun(k)
  \/ \E k \in Threads : PkgMethod(k)
  \/ \E k \in Threads : PkgReturn(k)
  \/ \E k \in Tasks : SubscribeLocked(k)
  \/ \E k \in Tasks : UnsubscribeLocked(k)
  \/ \E k \in Tasks : UnsubscribeCopy(k)
  \/ \E k \in Tasks : UnsubscribeDone(k)
  \/ \E k \in Tasks : PublishLocked(k)
  \/ \E k \in Tasks : PublishLoop(k)
  \/ \E k \in Tasks : PublishReturn(k)
  \/ \E k \in Tasks : HandlerReturn(k)
  \/ \E g \in Goroutines, inv \in BagToSet(spawned) : GoStart(g, inv)

DefaultSpec == DefaultInit /\ [][DefaultNext]_vars

\* ------------------------------------------------- a sequential program
MaxSeqCalls == 6     \* bus calls made in one run under SeqSpec

\* the goroutine of a program that has one
Main == 1

SeqInit == InitBus /\ left = MaxSeqCalls

\* one goroutine calls the Bus, also from inside its handlers
SeqNext ==
  \/ \E t \in Topics, h \in PtrHandlers : CallSubscribe(Main, t, h)
  \/ \E t \in Topics, h \in PtrHandlers, c \in BOOLEAN : CallUnsubscribe(Main, t, h, c)
  \/ UnsubscribeCopy(Main)
  \/ UnsubscribeDone(Main)
  \/ \E t \in Topics, v \in Values : CallPublish(Main, t, v, 0)
  \/ PublishLoop(Main)
  \/ PublishReturn(Main)
  \/ HandlerReturn(Main)

SeqSpec == SeqInit /\ [][SeqNext]_vars

\* --------------------------------------------------------------- OnceFunc
MaxOnceCalls == 5    \* bus calls made in one run under OnceSpec

OnceInit == InitBus /\ left = MaxOnceCalls

\* OnceFunc(t, f): a new wrapper o is subscribed to t; it holds the
\* capability its own subscription returned
OnceFunc(k, t, o) ==
  /\ o \in OnceHandlers
  /\ \A t2 \in Topics : subs[<<t2, o>>] = 0
  /\ \A i \in 1..Len(OnceOrder) : (OnceOrder[i] = o) =>
        \A j \in 1..(i - 1) : \E t2 \in Topics : subs[<<t2, OnceOrder[j]>>] > 0
  /\ CallSubscribe(k, t, o)

\* the wrapper's On: the wrapped function has returned, the wrapper calls its
\* capability, which is b.Unsubscribe(t, o)
OnceUnsub(k) ==
  /\ ~crashed
  /\ stack[k] # <<>>
  /\ Top(k).op = "On"
  /\ Top(k).pc = "body"
  /\ Top(k).h \in OnceHandlers
  /\ LET o == Top(k)
         f == [op |-> "Unsubscribe", pc |-> "lock", t |-> o.t, h |-> o.h,
               viaCap |-> TRUE, late |-> capTrue[<<o.t, o.h>>] > 0,
               a |-> NilSlice, i |-> 0, old |-> <<>>]
     IN IF CanLock THEN UnsubscribeScan(k, f, Caller(k)) ELSE Wait(k, f)
  /\ UNCHANGED left

\* one goroutine registers handlers, with OnceFunc or SubscribeFunc, and
\* publishes synchronously
OnceNext ==
  \/ \E t \in Topics, o \in OnceHandlers : OnceFunc(Main, t, o)
  \/ \E t \in Topics, h \in PtrHandlers : CallSubscribe(Main, t, h)
  \/ \E t \in Topics, v \in Values : CallPublish(Main, t, v, 0)
  \/ PublishLoop(Main)
  \/ PublishReturn(Main)
  \/ OnceUnsub(Main)
  \/ UnsubscribeCopy(Main)
  \/ UnsubscribeDone(Main)
  \/ HandlerReturn(Main)

OnceSpec == OnceInit /\ [][OnceNext]_vars

\* ------------------------------------------------- handlers of any type
MaxAnyCalls == 4     \* bus calls made in one run under AnySpec

AnyInit == InitBus /\ left = MaxAnyCalls

\* the handlers a program passes to Subscribe and Unsubscribe: pointers, two
\* equal values of a comparable type, a HandlerFunc by value
AnyHandlers == PtrHandlers \cup ValHandlers \cup FuncHandlers

\* one goroutine calls the Bus with handlers of any type
AnyNext ==
  \/ \E t \in Topics, h \in AnyHandlers : CallSubscribe(Main, t, h)
  \/ \E t \in Topics, h \in AnyHandlers, c \in BOOLEAN : CallUnsubscribe(Main, t, h, c)
  \/ UnsubscribeCopy(Main)
  \/ UnsubscribeDone(Main)
  \/ \E t \in Topics, v \in Values : CallPublish(Main, t, v, 0)
  \/ PublishLoop(Main)
  \/ PublishReturn(Main)
  \/ HandlerReturn(Main)

AnySpec == AnyInit /\ [][AnyNext]_vars

\* ================================================================= claims
Frame(p) == stack[p[1]][p[2]]
PublishFrames == {p \in FramesOf(stack, "Publish") : Frame(p).pc = "loop"}
IsTop(p) == p[2] = Len(stack[p[1]])
IsSync(f) == ~HasFlag(f.flags, Async)
IsPrefix(q, r) == Len(q) <= Len(r) /\ \A j \in 1..Len(q) : q[j] = r[j]

\* no handler was ever removed from topic t: absList[t] is then the order in
\* which its handlers were subscribed
NoneRemoved(t) == muts[t] = Len(absList[t])

\* C1: the handlers a Publish (synchronous or Async) dispatches are, in order,
\* the handlers of the list as it was when Publish read it: whatever is
\* subscribed or unsubscribed after the read, the handlers dispatched so far
\* are the first ones of that snapshot.
C1_SnapshotDispatch ==
  \A p \in PublishFrames : IsPrefix(Frame(p).inv, Frame(p).snap)

\* C2: a synchronous Publish to a topic whose handlers H1..Hn were subscribed
\* in that order, none ever removed, calls H1, .., Hn in that order with
\* (b, topic, v), each call returning before the next starts and all before
\* Publish returns, and Publish returns n.
C2_SyncLoop ==
  \A p \in PublishFrames :
    LET f == Frame(p)
        n == f.hs.len
    IN (IsSync(f) /\ NoneRemoved(f.t)) =>
         /\ n = Len(f.snap)
         /\ f.snap = SubSeq(absList[f.t], 1, n)
         /\ f.inv = SubSeq(f.snap, 1, f.i - 1)
         /\ IF IsTop(p) THEN f.fin = Len(f.inv)
            ELSE LET on == stack[p[1]][p[2] + 1]
                 IN /\ on.op = "On"
                    /\ on.h = f.snap[f.i - 1] /\ on.t = f.t /\ on.v = f.v
                    /\ f.fin = Len(f.inv) - 1

C2_SyncReturn ==
  \A k \in Tasks :
    (PublishReturn(k) /\ IsSync(Top(k)) /\ NoneRemoved(Top(k).t)) =>
       /\ Top(k).inv = Top(k).snap
       /\ Top(k).fin = Len(Top(k).snap)
       /\ ret'[k] = [op |-> "Publish", n |-> Len(Top(k).snap), err |-> Nil]

C2_SyncPublishOrder == [](C2_SyncLoop) /\ [][C2_SyncReturn]_vars

\* a synchronous Publish has called two different handlers of a topic that
\* never lost one, and both have returned
C2_Witness ==
  \E p \in PublishFrames :
    LET f == Frame(p)
    IN /\ IsSync(f) /\ NoneRemoved(f.t) /\ IsTop(p)
       /\ f.i > f.hs.len /\ f.hs.len = 2 /\ f.fin = 2
       /\ f.inv[1] # f.inv[2]

\* C5: a topic key is in the map exactly when its handler list is not empty:
\* no key maps to an empty list, and once the lock is free a topic with no
\* handler left has no key.
C5_TopicPresence ==
  /\ \A t \in DOMAIN topics : topics[t].len > 0 /\ topics[t].len <= topics[t].cap
  /\ writer = 0 => \A t \in Topics : t \in DOMAIN topics <=> absList[t] # <<>>

\* the last handler of a topic was removed and the key is gone
C5_Witness ==
  \E k \in Tasks, t \in Topics :
    /\ ret[k].op = "Unsubscribe" /\ ret[k].val /\ ret[k].t = t
    /\ t \notin DOMAIN topics

\* C6: no update is lost: whenever the write lock is free, the list of every
\* topic holds exactly the handlers whose Subscribe took effect less those
\* an Unsubscribe removed, in order; an Unsubscribe returns false only for a
\* handler that is not in the list; a topic all of whose handlers were
\* unsubscribed is absent from the map.
C6_Lists ==
  writer = 0 =>
    \A t \in Topics : /\ List(t) = absList[t]
                      /\ absList[t] = <<>> => t \notin DOMAIN topics

C6_Unsubscribes ==
  \A k \in Tasks :
    ((\E t \in Topics, h \in Handlers, c \in BOOLEAN : CallUnsubscribe(k, t, h, c))
       \/ UnsubscribeLocked(k)) =>
      /\ (ret'[k].op = "Unsubscribe" /\ ~ret'[k].val) =>
            ret'[k].h \notin Range(absList[ret'[k].t])
      /\ writer' = k => Top(k)'.h \in Range(absList[Top(k)'.t])

C6_NoLostUpdate == [](C6_Lists) /\ [][C6_Unsubscribes]_vars

\* two different handlers were subscribed to a topic, both were unsubscribed
\* with true, and the topic is gone
C6_Witness ==
  \E t \in Topics :
    /\ muts[t] = 4 /\ absList[t] = <<>> /\ t \notin DOMAIN topics
    /\ \E h1, h2 \in Handlers : h1 # h2 /\ subs[<<t, h1>>] = 1 /\ subs[<<t, h2>>] = 1
    /\ \E k \in Tasks : ret[k].op = "Unsubscribe" /\ ret[k].val

UnsubscribeFrames == FramesOf(stack, "Unsubscribe")

\* C3 (as claimed): a call of the capability of (t, h) made after one of its
\* calls has returned true does not find h again, so it cannot return true.
C3_OneShot ==
  \A p \in UnsubscribeFrames :
    (Frame(p).viaCap /\ Frame(p).late) => Frame(p).pc # "copy"

\* C3 (amended): when h was subscribed to t only once, a call of the
\* capability of (t, h) made after one of its calls has returned true does
\* not find h, and returns false.
C3_Frames ==
  \A p \in UnsubscribeFrames :
    LET f == Frame(p)
    IN (f.viaCap /\ f.late /\ subs[<<f.t, f.h>>] <= 1) => f.pc # "copy"

C3_Returns ==
  \A k \in Tasks :
    (ret[k].op = "Unsubscribe" /\ ret[k].viaCap /\ ret[k].late
       /\ subs[<<ret[k].t, ret[k].h>>] <= 1) => ~ret[k].val

C3_OneShotWhenSubscribedOnce == C3_Frames /\ C3_Returns

\* the capability of a handler subscribed once returned true, and a call
\* made after that has returned false
C3_Witness ==
  \E k \in Tasks :
    /\ ret[k].op = "Unsubscribe" /\ ret[k].viaCap /\ ret[k].late /\ ~ret[k].val
    /\ subs[<<ret[k].t, ret[k].h>>] = 1
    /\ capTrue[<<ret[k].t, ret[k].h>>] = 1

\* C4: an Unsubscribe that finds h removes the first element identical to h
\* and nothing else: the rest of the list keeps its order, the lists of the
\* other topics are unchanged, and it returns true; a Publish to the topic
\* during which the list is not changed again dispatches exactly the
\* handlers that remain, and its count is their number.
C4_Remove ==
  \A k \in Tasks :
    UnsubscribeDone(k) =>
      \A f \in {Top(k)} :
        LET first == CHOOSE i \in 1..Len(f.old) :
                        f.old[i] = f.h /\ \A j \in 1..(i - 1) : f.old[j] # f.h
        IN /\ f.old = absList[f.t]
           /\ f.h \in Range(f.old)
           /\ \A t \in Topics :
                List(t)' = IF t = f.t THEN RemoveAt(f.old, first) ELSE List(t)
           /\ ret'[k].op = "Unsubscribe" /\ ret'[k].val

C4_PublishAfter ==
  \A p \in PublishFrames :
    LET f == Frame(p)
    IN muts[f.t] = f.gen0 =>
         /\ f.hs.len = Len(List(f.t))
         /\ f.inv = SubSeq(List(f.t), 1, f.i - 1)

C4_RemoveOne == [](C4_PublishAfter) /\ [][C4_Remove]_vars

\* H1 and H2 were subscribed, H1 was unsubscribed, and a Publish that read
\* the list after that has dispatched H2 alone: its count is 1
C4_Witness ==
  \E p \in PublishFrames :
    LET f == Frame(p)
    IN /\ muts[f.t] = 3 /\ f.gen0 = 3
       /\ f.i > f.hs.len /\ f.hs.len = 1 /\ f.fin = 1
       /\ \E h1 \in Handlers \ {f.inv[1]} :
             subs[<<f.t, h1>>] = 1 /\ capTrue[<<f.t, h1>>] = 1

\* C9: Publish returns a nil error and the length the list of the topic had
\* when it was read; for a topic without subscribers it returns (0, nil)
\* and dispatches nothing; no step of Publish changes the map or a list.
C9_Frames ==
  \A p \in PublishFrames :
    /\ Frame(p).hs.len = Len(Frame(p).snap)
    /\ Frame(p).snap = <<>> => Frame(p).inv = <<>>

PublishStep(k) ==
  \/ \E t \in Topics, v \in Values, fl \in Flags : CallPublish(k, t, v, fl)
  \/ PublishLocked(k)
  \/ PublishLoop(k)
  \/ PublishReturn(k)

C9_Steps ==
  \A k \in Tasks :
    /\ PublishReturn(k) =>
         ret'[k] = [op |-> "Publish", n |-> Len(Top(k).snap), err |-> Nil]
    /\ PublishStep(k) =>
         /\ DOMAIN topics' = DOMAIN topics
         /\ \A t \in Topics : List(t)' = List(t)

C9_PublishResult == [](C9_Frames) /\ [][C9_Steps]_vars

\* the first call on a new Bus was a Publish: it returned (0, nil)
C9_Witness ==
  \E k \in Tasks :
    /\ ret[k] = [op |-> "Publish", n |-> 0, err |-> Nil]
    /\ left = MaxCalls - 1
    /\ topics = << >>

\* C10: PublishAll returns a nil error and the sum of the lengths of all
\* lists, and starts one goroutine per occurrence of a handler in a list,
\* with the topic of that list: a handler subscribed to k topics is counted
\* and started k times.
RECURSIVE SumLen(_)
SumLen(T) ==
  IF T = {} THEN 0
  ELSE LET t == CHOOSE x \in T : TRUE IN Len(absList[t]) + SumLen(T \ {t})

\* one invocation per occurrence of a handler in the lists of the topics T
Occurrences(T, v) ==
  LET S == {[h |-> h, t |-> t, v |-> v] : h \in Handlers, t \in T}
  IN [x \in {y \in S : y.h \in Range(absList[y.t])} |->
         Cardinality({i \in 1..Len(absList[x.t]) : absList[x.t][i] = x.h})]

C10_Steps ==
  \A k \in Tasks :
    /\ PublishAllReturn(k) =>
         /\ ret'[k] = [op |-> "PublishAll", n |-> SumLen(Topics), err |-> Nil]
         /\ Top(k).sched = Occurrences(Topics, Top(k).v)
    /\ \A t \in Topics :
         PublishAllTopic(k, t) =>
           /\ spawned' = spawned (+) Occurrences({t}, Top(k).v)
           /\ Top(k)'.sched = Top(k).sched (+) Occurrences({t}, Top(k).v)

C10_PublishAllFanOut == [][C10_Steps]_vars

\* one handler is subscribed to both topics and PublishAll has returned 2,
\* with one goroutine per topic to start
C10_Witness ==
  \E k \in Tasks, h \in Handlers :
    /\ ret[k].op = "PublishAll" /\ ret[k].n = 2
    /\ \A t \in Topics : absList[t] = <<h>>
    /\ \A t \in Topics : CopiesIn([h |-> h, t |-> t, v |-> "hello"], spawned) = 1

\* C7: a handler called by a synchronous Publish may call Subscribe,
\* Unsubscribe or Publish on the same Bus: Publish holds no lock while its
\* handlers run, nobody waits for a lock it holds itself, the inner call
\* completes and the outer Publish returns.
HoldsLock(k) == writer = k \/ k \in readers

C7_NoLockHeld ==
  \A k \in Tasks :
    /\ writer = k =>
         stack[k] # <<>> /\ Top(k).op = "Unsubscribe" /\ Top(k).pc = "copy"
    /\ k \in readers =>
         stack[k] # <<>> /\ Top(k).op = "PublishAll" /\ Top(k).pc = "range"
    /\ (stack[k] # <<>> /\ Top(k).pc = "lock") => ~HoldsLock(k)
    /\ (stack[k] # <<>> /\ Top(k).op \in {"On", "Publish"}) => ~HoldsLock(k)

\* frame d of goroutine k is a call made by a handler that a synchronous
\* Publish of k called
InnerCall(k, d) ==
  /\ d >= 3
  /\ Len(stack[k]) >= d
  /\ stack[k][d - 1].op = "On"
  /\ stack[k][d - 2].op = "Publish"

C7_Reentrancy ==
  /\ [](C7_NoLockHeld)
  /\ \A k \in Tasks :
       /\ \A d \in 3..MaxDepth : InnerCall(k, d) ~> (Len(stack[k]) < d)
       /\ (stack[k] # <<>> /\ stack[k][1].op = "Publish") ~> (stack[k] = <<>>)

\* a handler called by a synchronous Publish has called Unsubscribe on the
\* same Bus, the call has returned true, and the handler goes on
C7_Witness ==
  \E k \in Tasks :
    /\ Len(stack[k]) = 2
    /\ stack[k][1].op = "Publish" /\ IsSync(stack[k][1])
    /\ stack[k][2].op = "On" /\ stack[k][2].pc = "after"
    /\ ret[k].op = "Unsubscribe" /\ ret[k].val

\* C8: an Async Publish returns the number of handlers of its snapshot
\* without waiting for a handler, and starts exactly one goroutine per
\* handler of the snapshot, with (b, topic, v).
C8_AsyncPublish ==
  \A p \in PublishFrames :
    LET f == Frame(p)
    IN (HasFlag(f.flags, Async) /\ f.i > f.hs.len) =>
         /\ IsTop(p) /\ f.fin = 0
         /\ f.hs.len = Len(f.snap)
         /\ f.inv = f.snap

PkgFrames == FramesOf(stack, "pkg")

\* C11: however many goroutines make their first package-level call at once,
\* NewBus is run for the default Bus once: defaultBus is nil or the one Bus
\* made, every caller whose getDefaultBus has returned, then and later, has
\* that Bus, and a Publish through the package reads the list the package's
\* Subscribes built.
C11_DefaultBusOnce ==
  /\ defaultBus \in {0, 1}
  /\ once.done <=> defaultBus = 1
  /\ \A p \in PkgFrames :
       Frame(p).pc \in {"call", "after"} => Frame(p).b = 1 /\ defaultBus = 1
  /\ \A k \in Tasks : ret[k].op = "pkg" => ret[k].b = 1
  /\ \A p \in PublishFrames :
       LET f == Frame(p)
       IN muts[f.t] = f.gen0 => Elems(heap, f.hs) = absList[f.t]

\* the second goroutine made its first package-level call, a Publish, while
\* the first was inside its first, a Subscribe; the Publish returned 1
C11_Witness ==
  /\ left = MaxPkgCalls - 2
  /\ ret[1].op = "pkg" /\ ret[1].fn = "Subscribe"
  /\ ret[2].op = "pkg" /\ ret[2].fn = "Publish" /\ ret[2].res.n = 1
  /\ defaultBus = 1

\* C13: a package-level function returns what the Bus method of the same
\* name returned on the default Bus (for Unsubscribe: true when the handler
\* was found and removed, false otherwise) and changes nothing besides.
C13_FacadeEquivalence ==
  [][\A k \in Threads :
       PkgReturn(k) =>
         /\ ret[k].op = Top(k).fn
         /\ ret'[k].res = ret[k]
         /\ topics' = topics /\ heap' = heap]_vars

\* the occurrences of h in a list, and the list without them
Count(q, h) == Cardinality({i \in 1..Len(q) : q[i] = h})
Others(q, h) == SelectSeq(q, LAMBDA x : x # h)

\* C12: the subscriptions of one handler reference h to one topic are
\* independent: every Subscribe(t, h) adds one occurrence of h to the list;
\* an Unsubscribe(t, h) returns true exactly when the list holds h, removes
\* one occurrence then and leaves the other handlers in their order, and
\* returns false and changes nothing when no occurrence is left; a
\* synchronous Publish during which the list is not changed calls h once per
\* occurrence and returns the length of the list.
C12_Lists ==
  writer = 0 =>
    \A t \in Topics, h \in Handlers : Count(List(t), h) = Count(absList[t], h)

C12_Publish ==
  \A p \in PublishFrames :
    LET f == Frame(p)
    IN (IsSync(f) /\ f.i > f.hs.len /\ muts[f.t] = f.gen0) =>
         /\ f.hs.len = Len(List(f.t))
         /\ \A h \in Handlers : Count(f.inv, h) = Count(List(f.t), h)
         /\ IsTop(p) => f.fin = Len(f.inv)

C12_Steps ==
  \A k \in Tasks :
    /\ \A t \in Topics, h \in Handlers :
         /\ (CallSubscribe(k, t, h) /\ ret'[k].op = "Subscribe") =>
               /\ Count(List(t), h)' = Count(List(t), h) + 1
               /\ Others(List(t), h)' = Others(List(t), h)
         /\ (\E c \in BOOLEAN : CallUnsubscribe(k, t, h, c)) =>
               /\ ret'[k].op = "Unsubscribe" =>
                    /\ ~ret'[k].val
                    /\ Count(List(t), h) = 0
                    /\ topics' = topics /\ heap' = heap
               /\ ret'[k].op # "Unsubscribe" => Count(List(t), h) > 0
    /\ UnsubscribeDone(k) =>
         \A f \in {Top(k)} :
           /\ Count(List(f.t), f.h)' = Count(f.old, f.h) - 1
           /\ Others(List(f.t), f.h)' = Others(f.old, f.h)
           /\ f.old = absList[f.t]
           /\ ret'[k].op = "Unsubscribe" /\ ret'[k].val

C12_DuplicatesIndependent == [](C12_Lists /\ C12_Publish) /\ [][C12_Steps]_vars

\* h was subscribed twice to a topic that has another handler, two
\* Unsubscribe(t, h) returned true and the third has returned false; the other
\* handler is what is left
C12_Witness ==
  \E t \in Topics, h \in Handlers :
    /\ ret[Main] = [op |-> "Unsubscribe", t |-> t, h |-> h, viaCap |-> TRUE,
                    late |-> TRUE, val |-> FALSE]
    /\ subs[<<t, h>>] = 2 /\ capTrue[<<t, h>>] = 2
    /\ Len(List(t)) = 1 /\ List(t)[1] # h

\* C14: a handler registered with OnceFunc is called by the first
\* synchronous Publish to its topic and by no later one: a synchronous
\* Publish that has finished has called every wrapper of the list it read
\* once, each of them is then out of the list, and the topic is gone when
\* the wrappers were its only handlers.
C14_OnceHandler ==
  \A p \in PublishFrames :
    LET f == Frame(p)
    IN (IsSync(f) /\ IsTop(p) /\ f.i > f.hs.len) =>
         /\ \A o \in OnceHandlers \cap Range(f.snap) :
               Count(f.inv, o) = 1 /\ o \notin Range(List(f.t))
         /\ Range(f.snap) \subseteq OnceHandlers => f.t \notin DOMAIN topics

\* a Publish of another goroutine than k has released the read lock and has
\* still elements of array a to read
ReadBy(a, k) ==
  \E p \in PublishFrames :
    /\ p[1] # k
    /\ Frame(p).hs.arr = a
    /\ Frame(p).i <= Frame(p).hs.len

\* C15: no Subscribe or Unsubscribe, holding the write lock, writes an
\* element of a backing array while a Publish of another goroutine, having
\* released the read lock, still reads elements of that array in its loop.
C15_NoDataRace ==
  [][\A k \in Tasks :
       (UnsubscribeCopy(k) \/ SubscribeLocked(k)
          \/ \E t \in Topics, h \in Handlers : CallSubscribe(k, t, h)) =>
         \A a \in Arrays : heap'[a] # heap[a] => ~ReadBy(a, k)]_vars

\* C16: an Unsubscribe(t, h) that runs while h is not in the list of t (the
\* topic has no key, h was never subscribed to it, or was removed already)
\* returns false and leaves the map and every list as they were, no key
\* made; an Unsubscribe returns false in no other case. This holds for the
\* capability called after its topic was deleted.
C16_Steps ==
  \A k \in Tasks, t \in Topics, h \in Handlers :
    ((CanLock /\ \E c \in BOOLEAN : CallUnsubscribe(k, t, h, c))
       \/ (UnsubscribeLocked(k) /\ Top(k).t = t /\ Top(k).h = h)) =>
      LET miss == ret'[k].op = "Unsubscribe" /\ ~ret'[k].val
      IN /\ h \notin Range(List(t)) <=> miss
         /\ miss => /\ topics' = topics
                    /\ heap' = heap
                    /\ \A t2 \in Topics : List(t2)' = List(t2)
                    /\ absList' = absList
                    /\ writer' = 0

C16_MissNoOp == [][C16_Steps]_vars

\* the capability of a handler has deleted its topic; called again, it has
\* returned false, and the map holds the other topic alone
C16_Witness ==
  \E k \in Tasks, t \in Topics :
    /\ ret[k].op = "Unsubscribe" /\ ret[k].t = t
    /\ ret[k].viaCap /\ ret[k].late /\ ~ret[k].val
    /\ DOMAIN topics = Topics \ {t}

\* C18: a Subscribe(t, h) that takes effect puts h at the end of the list of
\* t (a list of one element when t had no key), leaves the elements the list
\* had and their order, leaves the slices of all other topics as they were,
\* calls no handler and starts none, and makes the list one longer.
C18_Steps ==
  \A k \in Tasks, t \in Topics, h \in Handlers :
    ((CanLock /\ CallSubscribe(k, t, h))
       \/ (SubscribeLocked(k) /\ Top(k).t = t /\ Top(k).h = h)) =>
      /\ List(t)' = Append(List(t), h)
      /\ Len(List(t))' = Len(List(t)) + 1
      /\ t \notin DOMAIN topics => List(t)' = <<h>>
      /\ DOMAIN topics' = DOMAIN topics \cup {t}
      /\ \A t2 \in Topics \ {t} :
           /\ List(t2)' = List(t2)
           /\ t2 \in DOMAIN topics => topics'[t2] = topics[t2]
      /\ spawned' = spawned
      /\ Cardinality(FramesOf(stack', "On")) = Cardinality(FramesOf(stack, "On"))
      /\ ret'[k] = [op |-> "Subscribe", t |-> t, h |-> h]

C18_SubscribeAppends == [][C18_Steps]_vars

\* a third handler was subscribed to a topic that had two, while the other
\* topic has a list of its own
C18_Witness ==
  \E k \in Tasks, t \in Topics :
    /\ ret[k].op = "Subscribe" /\ ret[k].t = t
    /\ Len(List(t)) = 3 /\ List(t)[3] = ret[k].h
    /\ topics[t].cap = 4
    /\ DOMAIN topics = Topics

\* C17: PublishAll cannot deadlock the Bus: while it holds the read lock it
\* waits for nothing (every topic it still has to visit is in the map), so
\* under fair scheduling every PublishAll returns with the read lock
\* released; and every call a handler running in a goroutine of its own
\* makes on the Bus, also one made while PublishAll holds the read lock,
\* gets the lock and returns to the handler.
C17_Holding ==
  \A k \in Tasks :
    k \in readers =>
      /\ stack[k] # <<>>
      /\ Top(k).op = "PublishAll" /\ Top(k).pc = "range"
      /\ Top(k).todo \subseteq DOMAIN topics
      /\ writer = 0

C17_PublishAllLive ==
  /\ [](C17_Holding)
  /\ \A k \in Tasks :
       (stack[k] # <<>> /\ Top(k).op = "PublishAll")
          ~> (k \notin readers /\ ret[k].op = "PublishAll")
  /\ \A g \in Goroutines :
       (Len(stack[g]) >= 2)
          ~> (Len(stack[g]) = 1 /\ ret[g].op \in {"Subscribe", "Unsubscribe",
                                                  "Publish", "PublishAll"})

\* a handler that PublishAll started runs while PublishAll still holds the
\* read lock, has called Subscribe or Unsubscribe, and waits for the lock
C17_Witness ==
  \E k \in Tasks, g \in Goroutines :
    /\ k \in readers
    /\ Len(stack[g]) = 2
    /\ stack[g][1].op = "On"
    /\ BagIn([h |-> stack[g][1].h, t |-> stack[g][1].t, v |-> stack[g][1].v],
             Top(k).sched)
    /\ stack[g][2].op \in {"Subscribe", "Unsubscribe"}
    /\ stack[g][2].pc = "lock"

\* the first index of list whose element holds what h holds
FirstEq(list, h) ==
  CHOOSE i \in 1..Len(list) :
    /\ Val(list[i]) = Val(h)
    /\ \A j \in 1..(i - 1) : Val(list[j]) # Val(h)

\* the Unsubscribe k has just called returned false and changed nothing
C19_Miss(k) ==
  /\ ret'[k].op = "Unsubscribe" /\ ~ret'[k].val
  /\ topics' = topics /\ heap' = heap

C19_Steps ==
  /\ \A k \in Tasks, t \in Topics, h \in Handlers :
       ((\E c \in BOOLEAN : CallUnsubscribe(k, t, h, c)) /\ CanLock) =>
          LET same == {i \in 1..Len(List(t)) : Val(List(t)[i]) = Val(h)}
          IN /\ (h \in PtrHandlers /\ h \notin Range(List(t))) => C19_Miss(k)
             /\ h \in ValHandlers => (same = {} <=> C19_Miss(k))
             /\ (h \in ValHandlers /\ same # {}) =>
                   /\ writer' = k
                   /\ ~crashed'
                   /\ stack'[k][Len(stack'[k])].pc = "copy"
  /\ \A k \in Tasks :
       UnsubscribeDone(k) =>
          \A f \in {Top(k)} :
             /\ \E i \in 1..Len(f.old) : Val(f.old[i]) = Val(f.h)
             /\ List(f.t)' = RemoveAt(f.old, FirstEq(f.old, f.h))
             /\ ret'[k].val

C20_UnsubscribeNeverFails ==
  [][/\ \A k \in Tasks, t \in Topics, h \in Handlers :
          ((\E c \in BOOLEAN : CallUnsubscribe(k, t, h, c)) /\ CanLock
              /\ subs[<<t, h>>] > 0) =>
             /\ ~crashed'
             /\ \/ ret'[k].op = "Unsubscribe" /\ ret'[k].val \in BOOLEAN /\ writer' = 0
                \/ writer' = k /\ stack'[k][Len(stack'[k])].pc = "copy"
     /\ \A k \in Tasks :
          UnsubscribeDone(k) =>
             ret'[k].op = "Unsubscribe" /\ ret'[k].val \in BOOLEAN /\ writer' = 0]_vars
====
